---------------------------- MODULE Spec2Model ----------------------------
(***************************************************************************)
(* Model of the ingestion utility scripts: the .sou streaming parser       *)
(* (sou_parser.py, app/sou_parser_new.py), the two XML truncators          *)
(* (app/truncate_xml.py, app/truncate_xml_new.py), the index manager       *)
(* (app/CreateIndexes.py) and the relationship timer (app/QueryTime.py).   *)
(* The scripts are independent programs; each has its own specification    *)
(* over the shared variable list, and the variables of the other scripts   *)
(* stay at their initial values.                                           *)
(***************************************************************************)
EXTENDS Integers, Sequences, FiniteSets, TLC

(***************************************************************************)
(* Python values.  A str is a sequence of characters.  An optional value   *)
(* (None, an absent child element, an unbound local) is the empty tuple,   *)
(* a present value v is the one-element tuple <<v>>.                       *)
(***************************************************************************)
None == << >>

Some(v) == << v >>

IsNone(o) == o = << >>

Get(o) == o[1]

RECURSIVE LastDot(_, _)
\* index of the last "." in s at or before position i, 0 when there is none
LastDot(s, i) ==
    IF i = 0 THEN 0
    ELSE IF s[i] = "." THEN i
    ELSE LastDot(s, i - 1)

\* full_name.split(".")[-1]
extract_class_name(full_name) ==
    SubSeq(full_name, LastDot(full_name, Len(full_name)) + 1, Len(full_name))

\* str.endswith
EndsWith(s, t) ==
    /\ Len(t) <= Len(s)
    /\ SubSeq(s, Len(s) - Len(t) + 1, Len(s)) = t

\* str.startswith
StartsWith(s, t) ==
    /\ Len(t) <= Len(s)
    /\ SubSeq(s, 1, Len(t)) = t

RECURSIVE LStrip(_)
LStrip(s) ==
    IF s # << >> /\ s[1] = " " THEN LStrip(Tail(s)) ELSE s

RECURSIVE RStrip(_)
RStrip(s) ==
    IF s # << >> /\ s[Len(s)] = " " THEN RStrip(SubSeq(s, 1, Len(s) - 1)) ELSE s

\* str.strip
Strip(s) == RStrip(LStrip(s))

RECURSIVE Concat(_)
\* the sequences of ss, one after the other
Concat(ss) ==
    IF ss = << >> THEN << >> ELSE Head(ss) \o Concat(Tail(ss))

\* all sequences over S of length at most n
SeqUpTo(S, n) == UNION { [1..k -> S] : k \in 0..n }

(***************************************************************************)
(* Bounds of the model.                                                    *)
(***************************************************************************)
\* elements (class, comment, methods) per parsed document
MaxElems == 3

\* <body> entries per methods block
MaxBodies == 2

\* lines of the text given to balance_xml_tags
MaxXmlLines == 2

\* tags on one line of that text
MaxLineTokens == 2

\* tags in the whole of that text
MaxTags == 4

\* class, methods and other blocks in the file given to the truncators
MaxBlocks == 3

\* largest max_lines argument tried
MaxLinesArg == 10

\* runs of create_indexes against the same database
MaxRuns == 2

\* CREATE INDEX statements the database fails, over all runs
MaxFailures == 2

\* indexes of the seven names already in the catalog before the first run
MaxPreexisting == 1

\* largest relationships_created counter a query's summary reports
MaxRelationships == 2

VARIABLES
    \* ---- parse (sou_parser.py, app/sou_parser_new.py) ----
    event,          \* the iterparse event the handler acts on: "end" or "start"
    doc,            \* the class/comment/methods elements delivered so far
    pending_class,  \* None or Some(TYPE record)
    class_name,     \* the local of the methods branch: None (unbound) or Some(str)
    types_count,
    methods_count,
    next_id,        \* stands for uuid.uuid4(): a fresh id per record
    out,            \* the records yielded so far
    src,            \* for each yielded record, the index in doc of the element that yielded it
    parse_pc,       \* "run", "done" (input exhausted) or "raised"
    \* ---- balance_xml_tags (app/truncate_xml.py, app/truncate_xml_new.py) ----
    xml_lines,      \* xml_content.split('\n'), the lines read so far
    open_tags,      \* the stack of tracked open tags
    balanced_lines, \* the list joined into the result
    balanced_again, \* None, or Some(what the function returns when given its own result)
    bal_pc,         \* "scan", "done" (returned) or "again" (called on its result)
    \* ---- truncate_xml_to_lines (app/truncate_xml.py, app/truncate_xml_new.py) ----
    trunc_variant,  \* "plain" (truncate_xml.py) or "prefix" (truncate_xml_new.py)
    all_lines,      \* the lines of the input file
    max_lines,
    priority_prefixes,
    class_ranges,   \* (start, end, class_name) of the first pass, 0-based lines
    methods_ranges, \* (start, end, class_id)
    priority_class_names,
    priority_ranges,
    header_end,
    output_lines,   \* the selected lines, as indices into all_lines
    used_lines,
    loop_i,         \* position of the running for loop
    tiers,          \* the parse tiers run so far, each with its outcome
    trunc_result,   \* None, or Some(tier whose result was returned)
    trunc_pc,
    \* ---- create_indexes (app/CreateIndexes.py) ----
    catalog,        \* the database's index catalog: entries per index name
    ix_run,         \* how many times create_indexes has been started
    ix_i,           \* position in "for index_name, index_query in indexes.items()"
    ix_log,         \* this run's statements so far, each with what was printed
    ix_failures,    \* statements failed so far
    ix_verified,    \* this run has issued SHOW INDEXES
    first_catalog,  \* None, or Some(the catalog when the first run left its loop)
    first_clean,    \* no statement of the first run failed
    ix_pc,
    \* ---- the relationship timer (app/QueryTime.py) ----
    qt_i,           \* position in "for key, q in queries.items()"
    qt_sessions,    \* the sessions opened so far, each with its query and state
    qt_printed,     \* the result lines printed so far
    qt_driver,      \* "open" or "closed" (driver.close() was called)
    qt_pc           \* "loop", "session" (inside the with block), "raised" or "exited"

parseVars ==
    << event, doc, pending_class, class_name, types_count, methods_count,
       next_id, out, src, parse_pc >>

balVars == << xml_lines, open_tags, balanced_lines, balanced_again, bal_pc >>

truncVars ==
    << trunc_variant, all_lines, max_lines, priority_prefixes, class_ranges,
       methods_ranges, priority_class_names, priority_ranges, header_end,
       output_lines, used_lines, loop_i, tiers, trunc_result, trunc_pc >>

indexVars ==
    << catalog, ix_run, ix_i, ix_log, ix_failures, ix_verified, first_catalog,
       first_clean, ix_pc >>

queryVars == << qt_i, qt_sessions, qt_printed, qt_driver, qt_pc >>

vars == << parseVars, balVars, truncVars, indexVars, queryVars >>

\* the keys of the indexes dict, in insertion order
Indexes ==
    << "idx_symbol_calls_lookup", "idx_symbol_type_lookup", "idx_symbol_file_path",
       "idx_symbol_namespace", "idx_namespace_repo_name", "idx_file_repo_path",
       "idx_repository_url" >>

IndexNames == { Indexes[k] : k \in 1..Len(Indexes) }

\* the scripts are separate programs: while one runs, the others' variables
\* keep their values
ParseIdle ==
    /\ event = "end"
    /\ doc = << >>
    /\ pending_class = None
    /\ class_name = None
    /\ types_count = 0
    /\ methods_count = 0
    /\ next_id = 1
    /\ out = << >>
    /\ src = << >>
    /\ parse_pc = "idle"

BalIdle ==
    /\ xml_lines = << >>
    /\ open_tags = << >>
    /\ balanced_lines = << >>
    /\ balanced_again = None
    /\ bal_pc = "idle"

TruncIdle ==
    /\ trunc_variant = "plain"
    /\ all_lines = << >>
    /\ max_lines = 0
    /\ priority_prefixes = << >>
    /\ class_ranges = << >>
    /\ methods_ranges = << >>
    /\ priority_class_names = << >>
    /\ priority_ranges = << >>
    /\ header_end = 0
    /\ output_lines = << >>
    /\ used_lines = {}
    /\ loop_i = 0
    /\ tiers = << >>
    /\ trunc_result = None
    /\ trunc_pc = "idle"

IndexIdle ==
    /\ catalog = [n \in IndexNames |-> 0]
    /\ ix_run = 0
    /\ ix_i = 0
    /\ ix_log = << >>
    /\ ix_failures = 0
    /\ ix_verified = FALSE
    /\ first_catalog = None
    /\ first_clean = TRUE
    /\ ix_pc = "idle"

QueryIdle ==
    /\ qt_i = 0
    /\ qt_sessions = << >>
    /\ qt_printed = << >>
    /\ qt_driver = "open"
    /\ qt_pc = "idle"

notParse == << balVars, truncVars, indexVars, queryVars >>

notBal == << parseVars, truncVars, indexVars, queryVars >>

notTrunc == << parseVars, balVars, indexVars, queryVars >>

notIndex == << parseVars, balVars, truncVars, queryVars >>

notQuery == << parseVars, balVars, truncVars, indexVars >>

(***************************************************************************)
(* The .sou parser.                                                        *)
(***************************************************************************)
\* texts of <name> and <class-id> children
NameTexts ==
    { <<"a">>, <<"p", ".", "b", "a">> }

\* texts of <body> children
BodyTexts == { <<" ", "t", " ">> }

\* selector attributes: the k-th <body> of a methods block has its own
Selectors(k) == [i \in 1..k |-> "x"]

Opt(S) == { None } \cup { Some(v) : v \in S }

ClassElems ==
    { [tag |-> "class", name |-> n] : n \in Opt(NameTexts) }

CommentElems ==
    { [tag |-> "comment", classId |-> c, body |-> b] :
        c \in Opt(NameTexts), b \in Opt(BodyTexts) }

\* the <body> entries of a methods block with n of them
BodyEntries(n) ==
    { [k \in 1..n |-> [selector |-> Selectors(k), text |-> Some(t)]] : t \in BodyTexts }

MethodsElems ==
    { [tag |-> "methods", classId |-> c, bodies |-> bs] :
        c \in Opt(NameTexts), bs \in UNION { BodyEntries(n) : n \in 0..MaxBodies } }

\* number of children of an element, in document order: for a class its
\* <name>; for a comment its <class-id>, then its <body>; for a methods block
\* its <class-id>, then its <body> entries
NumChildren(e) ==
    CASE e.tag = "class"   -> IF IsNone(e.name) THEN 0 ELSE 1
      [] e.tag = "comment" -> (IF IsNone(e.classId) THEN 0 ELSE 1)
                              + (IF IsNone(e.body) THEN 0 ELSE 1)
      [] e.tag = "methods" -> (IF IsNone(e.classId) THEN 0 ELSE 1) + Len(e.bodies)

\* The element as the handler sees it when the first k children have been
\* parsed.  On an "end" event the element is complete.  On a "start" event
\* (app/sou_parser_new.py) the children are those the parser has read so far:
\* any prefix of them.
View(e, k) ==
    CASE e.tag = "class" ->
            [e EXCEPT !.name = IF k >= 1 THEN e.name ELSE None]
      [] e.tag = "comment" ->
            LET nid == IF IsNone(e.classId) THEN 0 ELSE 1
            IN  [e EXCEPT !.classId = IF k >= 1 THEN e.classId ELSE None,
                          !.body = IF k >= nid + 1 THEN e.body ELSE None]
      [] e.tag = "methods" ->
            LET nid == IF IsNone(e.classId) THEN 0 ELSE 1
            IN  [e EXCEPT !.classId = IF k >= 1 THEN e.classId ELSE None,
                          !.bodies = SubSeq(e.bodies, 1,
                                            IF k >= nid THEN k - nid ELSE 0)]

\* the children visible to the handler of element e
Visible(e) ==
    IF event = "end" THEN { NumChildren(e) } ELSE 0..NumChildren(e)

\* elem.findtext(child, default)
findtext(child, default) ==
    IF IsNone(child) THEN default ELSE child

\* "".join(ET.tostring(e) for e in elem).strip() of a class element
InnerXml(v) ==
    IF IsNone(v.name) THEN << >>
    ELSE <<"<name>">> \o Get(v.name) \o <<"</name>">>

\* the pending record of the class branch
TypeRecord(v) ==
    [name |-> extract_class_name(Get(v.name)), type |-> "TYPE",
     body |-> InnerXml(v), comment |-> << >>, id |-> next_id]

\* a variant that merges the body text of whatever comment comes
CommentMergeAlways(pending, v) ==
    [pending EXCEPT !.comment = Strip(Get(findtext(v.body, Some(<< >>))))]

\* the record the comment branch yields for comment element v
CommentMerge(pending, v) ==
    LET comment_class_id == extract_class_name(Get(findtext(v.classId, Some(<< >>))))
    IN  IF EndsWith(comment_class_id, pending.name)
        THEN [pending EXCEPT !.comment = Strip(Get(findtext(v.body, Some(<< >>))))]
        ELSE pending

\* a variant that leaves the yielded class in the slot
PendingAfterYieldKept(pending) == pending

\* pending_class = None after the yield of the comment branch
PendingAfterYield(pending) == None

\* the class name the body loop of the methods branch reads: the one taken
\* from this block's <class-id>, or, when extract_class_name raised on None
\* and the exception was caught and printed ("end" handler only), whatever
\* the local held before
MethodsClassName(v) ==
    IF IsNone(v.classId) THEN class_name
    ELSE Some(extract_class_name(Get(v.classId)))

\* the record yielded for one <body> of a methods block
MethodRecord(cn, b, id) ==
    [name |-> cn \o <<".">> \o b.selector, type |-> "METHOD",
     comment |-> << >>, body |-> Strip(Get(findtext(b.text, Some(<< >>)))), id |-> id]

InitParse ==
    /\ event \in {"end", "start"}
    /\ doc = << >>
    /\ pending_class = None
    /\ class_name = None
    /\ types_count = 0
    /\ methods_count = 0
    /\ next_id = 1
    /\ out = << >>
    /\ src = << >>
    /\ parse_pc = "run"
    /\ BalIdle
    /\ TruncIdle
    /\ IndexIdle
    /\ QueryIdle

\* elem.tag == "class": extract_class_name(None) raises when no <name> is
\* there; otherwise the class becomes the pending class, replacing any
\* pending class without yielding it
ParseClass ==
    /\ parse_pc = "run"
    /\ Len(doc) < MaxElems
    /\ \E e \in ClassElems : \E k \in Visible(e) :
        LET v == View(e, k)
        IN  /\ doc' = Append(doc, e)
            /\ IF IsNone(v.name)
               THEN /\ parse_pc' = "raised"
                    /\ UNCHANGED << pending_class, next_id >>
               ELSE /\ pending_class' = Some(TypeRecord(v))
                    /\ next_id' = next_id + 1
                    /\ UNCHANGED parse_pc
    /\ UNCHANGED << event, class_name, types_count, methods_count, out, src >>
    /\ UNCHANGED notParse

\* elem.tag == "comment": with a pending class, yield it (comment merged when
\* the class-id matches) and clear the slot; with none, the final else branch
ParseComment ==
    /\ parse_pc = "run"
    /\ Len(doc) < MaxElems
    /\ \E e \in CommentElems : \E k \in Visible(e) :
        LET v == View(e, k)
        IN  /\ doc' = Append(doc, e)
            /\ IF IsNone(pending_class)
               THEN UNCHANGED << pending_class, types_count, out, src >>
               ELSE /\ out' = Append(out, CommentMerge(Get(pending_class), v))
                    /\ src' = Append(src, Len(doc) + 1)
                    /\ types_count' = IF event = "end" THEN types_count + 1
                                      ELSE types_count
                    /\ pending_class' = PendingAfterYield(pending_class)
    /\ UNCHANGED << event, class_name, methods_count, next_id, parse_pc >>
    /\ UNCHANGED notParse

\* elem.tag == "methods": one METHOD record per <body>.  Without a <class-id>
\* extract_class_name(None) raises: app/sou_parser_new.py lets it propagate,
\* sou_parser.py catches and prints it and goes on to the body loop, where an
\* unbound class_name raises UnboundLocalError at the first body.
ParseMethods ==
    /\ parse_pc = "run"
    /\ Len(doc) < MaxElems
    /\ \E e \in MethodsElems : \E k \in Visible(e) :
        LET v  == View(e, k)
            cn == MethodsClassName(v)
            n  == Len(v.bodies)
        IN  /\ doc' = Append(doc, e)
            /\ IF IsNone(v.classId) /\ event = "start"
               THEN /\ parse_pc' = "raised"
                    /\ UNCHANGED << class_name, methods_count, next_id, out, src >>
               ELSE IF IsNone(cn) /\ n > 0
               THEN /\ parse_pc' = "raised"
                    /\ methods_count' = methods_count + 1
                    /\ UNCHANGED << class_name, next_id, out, src >>
               ELSE /\ class_name' = cn
                    /\ out' = out \o [i \in 1..n |->
                                        MethodRecord(Get(cn), v.bodies[i], next_id + i - 1)]
                    /\ src' = src \o [i \in 1..n |-> Len(doc) + 1]
                    /\ next_id' = next_id + n
                    /\ methods_count' = IF event = "end" THEN methods_count + n
                                        ELSE methods_count
                    /\ UNCHANGED parse_pc
    /\ UNCHANGED << event, pending_class, types_count >>
    /\ UNCHANGED notParse

\* the iterparse context is exhausted: the generator returns; a class still
\* pending is not yielded
ParseEnd ==
    /\ parse_pc = "run"
    /\ parse_pc' = "done"
    /\ UNCHANGED << event, doc, pending_class, class_name, types_count,
                    methods_count, next_id, out, src >>
    /\ UNCHANGED notParse

NextParse ==
    \/ ParseClass
    \/ ParseComment
    \/ ParseMethods
    \/ ParseEnd

SpecParse == InitParse /\ [][NextParse]_vars

(***************************************************************************)
(* Properties of the parser.                                               *)
(***************************************************************************)
TypeIndices == { j \in 1..Len(out) : out[j].type = "TYPE" }

ClassIndices == { i \in 1..Len(doc) : doc[i].tag = "class" }

\* which <body> of its methods block record i was yielded for
BodyIndex(i) == Cardinality({ j \in 1..i : src[j] = src[i] })

\* the input of C1: one class, one comment for that class, one methods block
\* for that class with two body selectors, every child present
C1Doc ==
    /\ Len(doc) = 3
    /\ doc[1].tag = "class" /\ ~IsNone(doc[1].name)
    /\ doc[2].tag = "comment" /\ ~IsNone(doc[2].classId) /\ ~IsNone(doc[2].body)
    /\ extract_class_name(Get(doc[2].classId)) = extract_class_name(Get(doc[1].name))
    /\ doc[3].tag = "methods" /\ ~IsNone(doc[3].classId)
    /\ extract_class_name(Get(doc[3].classId)) = extract_class_name(Get(doc[1].name))
    /\ Len(doc[3].bodies) = 2

\* the output C1 asks for: the TYPE record with the comment's (stripped) body
\* text, then the two METHOD records in the order of their body entries
C1Out ==
    /\ Len(out) = 3
    /\ out[1].type = "TYPE"
    /\ out[1].name = extract_class_name(Get(doc[1].name))
    /\ out[1].comment = Strip(Get(doc[2].body))
    /\ \A i \in 1..2 :
        /\ out[i + 1].type = "METHOD"
        /\ out[i + 1].name = extract_class_name(Get(doc[3].classId))
                             \o <<".">> \o doc[3].bodies[i].selector
        /\ out[i + 1].body = Strip(Get(doc[3].bodies[i].text))

\* C1: for one class, its comment and its methods block with two selectors,
\* parse yields exactly the TYPE record (comment merged in) followed by the two
\* METHOD records in document order, and nothing else.
C1_ThreeRecords ==
    (parse_pc \in {"done", "raised"} /\ C1Doc) => C1Out

\* C1 restricted to the handler of sou_parser.py, which acts on "end" events
C1_ThreeRecordsOnEnd ==
    (event = "end" /\ parse_pc \in {"done", "raised"} /\ C1Doc) => C1Out

\* the case of C1 has happened under the "end" handler
C1_Witness ==
    event = "end" /\ parse_pc = "done" /\ C1Doc /\ C1Out

\* C5: no class element of the input is lost: when parse has returned, every
\* class element, also one never followed by a comment and the last one of
\* the document, has been yielded as a TYPE record.
C5_NoClassLost ==
    parse_pc = "done" => Cardinality(TypeIndices) = Cardinality(ClassIndices)

\* C5, its mechanism: a pending class is yielded when the next class element
\* or a methods block is processed.
C5_YieldedWhenSupplanted ==
    [][(/\ ~IsNone(pending_class)
        /\ Len(doc') = Len(doc) + 1
        /\ doc'[Len(doc')].tag \in {"class", "methods"}
        /\ parse_pc' = "run")
       => (\E j \in Len(out) + 1..Len(out') : out'[j] = Get(pending_class))]_vars

\* what the code does instead: TYPE records are yielded by comment elements only
C5_TypeOnlyAtComment ==
    \A j \in TypeIndices : doc[src[j]].tag = "comment"

\* C8: every METHOD record is named <class-name>.<selector> with the class
\* name taken from the <class-id> of the methods block that holds its body;
\* no record carries the class name of another block.
C8_MethodNamedAfterOwnBlock ==
    \A i \in 1..Len(out) :
        out[i].type = "METHOD" =>
            LET e == doc[src[i]]
            IN  /\ e.tag = "methods"
                /\ ~IsNone(e.classId)
                /\ out[i].name = extract_class_name(Get(e.classId))
                                 \o <<".">> \o e.bodies[BodyIndex(i)].selector

\* C8 for the blocks that have a <class-id>
C8_NamedWhenClassIdPresent ==
    \A i \in 1..Len(out) :
        (out[i].type = "METHOD" /\ ~IsNone(doc[src[i]].classId)) =>
            out[i].name = extract_class_name(Get(doc[src[i]].classId))
                          \o <<".">> \o doc[src[i]].bodies[BodyIndex(i)].selector

\* the step handles a comment element
C13_CommentStep ==
    /\ Len(doc') = Len(doc) + 1
    /\ doc'[Len(doc')].tag = "comment"

\* the last dot-separated segment of comment e's <class-id> ends with name n
C13_Belongs(e, n) ==
    EndsWith(extract_class_name(Get(findtext(e.classId, Some(<< >>)))), n)

\* C13: a comment processed while a class is pending yields that class, not
\* yielded before, as the one new record and clears the slot, whether or not
\* the comment belongs to the class; the record's comment is the comment's
\* stripped body text or empty, and it is empty unless the last segment of
\* the comment's <class-id> ends with the pending class name (under the
\* "end" handler the text is merged exactly then).  A comment processed
\* while no class is pending yields nothing.
C13_CommentYieldsPendingOnce ==
    [][C13_CommentStep =>
        LET e == doc'[Len(doc')]
        IN  IF IsNone(pending_class)
            THEN out' = out /\ pending_class' = None
            ELSE LET p    == Get(pending_class)
                     text == Strip(Get(findtext(e.body, Some(<< >>))))
                 IN  /\ \A j \in 1..Len(out) : out[j].id # p.id
                     /\ Len(out') = Len(out) + 1
                     /\ SubSeq(out', 1, Len(out)) = out
                     /\ pending_class' = None
                     /\ [out'[Len(out')] EXCEPT !.comment = << >>] = p
                     /\ out'[Len(out')].comment \in { << >>, text }
                     /\ ~C13_Belongs(e, p.name) => out'[Len(out')].comment = << >>
                     /\ (event = "end" /\ C13_Belongs(e, p.name))
                            => out'[Len(out')].comment = text]_vars

\* a class, then a comment with body text for another class, then one more
\* comment: one TYPE record with an empty comment, and the slot is empty
C13_Witness ==
    /\ Len(doc) = 3
    /\ doc[1].tag = "class"
    /\ doc[2].tag = "comment" /\ ~IsNone(doc[2].classId) /\ ~IsNone(doc[2].body)
    /\ doc[3].tag = "comment"
    /\ Len(out) = 1
    /\ src[1] = 2
    /\ ~C13_Belongs(doc[2], out[1].name)
    /\ out[1].comment = << >>
    /\ pending_class = None

\* the class element that TYPE record j was made from: the last class
\* element before the element that yielded it
C15_ClassOf(j) ==
    CHOOSE i \in 1..src[j] - 1 :
        /\ doc[i].tag = "class"
        /\ \A h \in i + 1..src[j] - 1 : doc[h].tag # "class"

\* the step handles a methods block
C15_MethodsStep ==
    /\ Len(doc') = Len(doc) + 1
    /\ doc'[Len(doc')].tag = "methods"

Tags == {"a", "b"}

SelfTags == {"a"}

OpenTag(t) == [kind |-> "open", tag |-> t]

CloseTag(t) == [kind |-> "close", tag |-> t]

SelfTag(t) == [kind |-> "self", tag |-> t]

\* the character '\n'
NL == [kind |-> "nl", tag |-> ""]

\* '  <!-- Truncated - closing open tags -->'
TruncatedComment == [kind |-> "comment", tag |-> ""]

TagTokens ==
    { OpenTag(t) : t \in Tags } \cup { CloseTag(t) : t \in Tags }
        \cup { SelfTag(t) : t \in SelfTags }

\* the lines of the input text
Lines == SeqUpTo(TagTokens, MaxLineTokens)

RECURSIVE Join(_)
\* '\n'.join(items)
Join(items) ==
    IF items = << >> THEN << >>
    ELSE IF Len(items) = 1 THEN items[1]
    ELSE items[1] \o <<NL>> \o Join(Tail(items))

RECURSIVE Split(_)
\* text.split('\n')
Split(text) ==
    IF \A i \in 1..Len(text) : text[i] # NL THEN << text >>
    ELSE LET i == CHOOSE j \in 1..Len(text) :
                    text[j] = NL /\ \A h \in 1..j - 1 : text[h] # NL
         IN  << SubSeq(text, 1, i - 1) >> \o Split(SubSeq(text, i + 1, Len(text)))

\* re.finditer(opening_pattern, line): the tag names, left to right
OpeningMatches(line) ==
    LET ms == SelectSeq(line, LAMBDA tok : tok.kind = "open")
    IN  [i \in 1..Len(ms) |-> ms[i].tag]

\* re.finditer(closing_pattern, line): the tag names, left to right
ClosingMatches(line) ==
    LET ms == SelectSeq(line, LAMBDA tok : tok.kind = "close")
    IN  [i \in 1..Len(ms) |-> ms[i].tag]

RECURSIVE PopClosings(_, _)
\* the closing loop: pop when the top of the stack is the tag being closed
PopClosings(stack, closings) ==
    IF closings = << >> THEN stack
    ELSE LET tag_name == Head(closings)
         IN  IF stack # << >> /\ stack[Len(stack)] = tag_name
             THEN PopClosings(SubSeq(stack, 1, Len(stack) - 1), Tail(closings))
             ELSE PopClosings(stack, Tail(closings))

\* one iteration of the line loop on the tag stack: every opening tag of the
\* line is pushed first, then every closing tag of the line is handled
ScanLine(stack, line) ==
    PopClosings(stack \o OpeningMatches(line), ClosingMatches(line))

RECURSIVE ClosingLinesInStackOrder(_)
\* a variant that closes the open tags from the bottom of the stack up
ClosingLinesInStackOrder(stack) ==
    IF stack = << >> THEN << >>
    ELSE << << CloseTag(stack[1]) >> >> \o ClosingLinesInStackOrder(Tail(stack))

RECURSIVE ClosingLines(_)
\* the while loop: one line '</tag>' per open tag, popped from the end
ClosingLines(stack) ==
    IF stack = << >> THEN << >>
    ELSE << << CloseTag(stack[Len(stack)]) >> >>
            \o ClosingLines(SubSeq(stack, 1, Len(stack) - 1))

\* what is appended to balanced_lines after the line loop
Closing(stack) ==
    IF stack = << >> THEN << >>
    ELSE << <<NL, TruncatedComment>> >> \o ClosingLines(stack)

RECURSIVE ScanLines(_, _)
\* the line loop on the tag stack, over all lines
ScanLines(stack, lines) ==
    IF lines = << >> THEN stack
    ELSE ScanLines(ScanLine(stack, Head(lines)), Tail(lines))

\* the function as a whole, from its argument to its result
balance_xml_tags(xml_content) ==
    LET lines == Split(xml_content)
    IN  Join(lines \o Closing(ScanLines(<< >>, lines)))

InitBalance ==
    /\ xml_lines = << >>
    /\ open_tags = << >>
    /\ balanced_lines = << >>
    /\ balanced_again = None
    /\ bal_pc = "scan"
    /\ ParseIdle
    /\ TruncIdle
    /\ IndexIdle
    /\ QueryIdle

\* one iteration of "for line in lines"
BalanceLine ==
    /\ bal_pc = "scan"
    /\ Len(xml_lines) < MaxXmlLines
    /\ \E line \in Lines :
        /\ Len(Concat(xml_lines)) + Len(line) <= MaxTags
        /\ xml_lines' = Append(xml_lines, line)
        /\ balanced_lines' = Append(balanced_lines, line)
        /\ open_tags' = ScanLine(open_tags, line)
    /\ UNCHANGED << balanced_again, bal_pc >>
    /\ UNCHANGED notBal

\* after the last line (split gives at least one): close the remaining open
\* tags in reverse order and return the joined lines
BalanceClose ==
    /\ bal_pc = "scan"
    /\ Len(xml_lines) >= 1
    /\ balanced_lines' = balanced_lines \o Closing(open_tags)
    /\ open_tags' = << >>
    /\ bal_pc' = "done"
    /\ UNCHANGED << xml_lines, balanced_again >>
    /\ UNCHANGED notBal

\* the returned text is given to balance_xml_tags again
BalanceAgain ==
    /\ bal_pc = "done"
    /\ balanced_again' = Some(balance_xml_tags(Join(balanced_lines)))
    /\ bal_pc' = "again"
    /\ UNCHANGED << xml_lines, open_tags, balanced_lines >>
    /\ UNCHANGED notBal

NextBalance ==
    \/ BalanceLine
    \/ BalanceClose
    \/ BalanceAgain

SpecBalance == InitBalance /\ [][NextBalance]_vars

\* the argument xml_content
XmlContent == Join(xml_lines)

\* the returned text, '\n'.join(balanced_lines)
BalancedXml == Join(balanced_lines)

(***************************************************************************)
(* Properties of balance_xml_tags.                                         *)
(***************************************************************************)
RECURSIVE Nest(_, _, _)
\* An XML reader's view of a text: the stack of open elements after it, or
\* ok = FALSE when a closing tag does not close the innermost open element or
\* a second root element begins.
Nest(stack, rooted, text) ==
    IF text = << >> THEN [ok |-> TRUE, stack |-> stack, rooted |-> rooted]
    ELSE LET tok == Head(text)
         IN  CASE tok.kind = "open" ->
                    IF stack = << >> /\ rooted
                    THEN [ok |-> FALSE, stack |-> stack, rooted |-> rooted]
                    ELSE Nest(Append(stack, tok.tag), TRUE, Tail(text))
               [] tok.kind = "self" ->
                    IF stack = << >> /\ rooted
                    THEN [ok |-> FALSE, stack |-> stack, rooted |-> rooted]
                    ELSE Nest(stack, TRUE, Tail(text))
               [] tok.kind = "close" ->
                    IF stack # << >> /\ stack[Len(stack)] = tok.tag
                    THEN Nest(SubSeq(stack, 1, Len(stack) - 1), rooted, Tail(text))
                    ELSE [ok |-> FALSE, stack |-> stack, rooted |-> rooted]
               [] OTHER -> Nest(stack, rooted, Tail(text))

\* every opened tag is closed, in reverse order of the openings, and nothing
\* is closed twice
WellFormed(text) ==
    LET r == Nest(<< >>, FALSE, text)
    IN  r.ok /\ r.rooted /\ r.stack = << >>

\* a well-formed document cut off inside an element
TruncatedDocument(text) ==
    LET r == Nest(<< >>, FALSE, text)
    IN  r.ok /\ r.stack # << >>

\* C2: for a well-formed document cut off mid-element, whatever the
\* distribution of its tags over lines, the returned text is well-formed.
C2_BalancedIsWellFormed ==
    (bal_pc = "done" /\ TruncatedDocument(XmlContent)) => WellFormed(BalancedXml)

\* C2 for texts with at most one tag per line
C2_OneTagPerLine ==
    (/\ bal_pc = "done"
     /\ TruncatedDocument(XmlContent)
     /\ \A i \in 1..Len(xml_lines) : Len(xml_lines[i]) <= 1)
        => WellFormed(BalancedXml)

\* C14: the returned text is what the function computes from its argument;
\* it starts with the argument unchanged; it is the argument exactly when no
\* tag is on the stack after the last line; and the function returns its own
\* result unchanged.
C14_AppendOnlyIdempotent ==
    /\ bal_pc \in {"done", "again"} =>
        /\ BalancedXml = balance_xml_tags(XmlContent)
        /\ StartsWith(BalancedXml, XmlContent)
        /\ BalancedXml = XmlContent <=> ScanLines(<< >>, xml_lines) = << >>
    /\ bal_pc = "again" => Get(balanced_again) = BalancedXml

\* two different tags were left open and closed by the function, and the
\* function was run on its result
C14_Witness ==
    /\ bal_pc = "again"
    /\ Len(ScanLines(<< >>, xml_lines)) >= 2
    /\ \E i, j \in 1..Len(ScanLines(<< >>, xml_lines)) :
            ScanLines(<< >>, xml_lines)[i] # ScanLines(<< >>, xml_lines)[j]
    /\ BalancedXml # XmlContent
    /\ Get(balanced_again) = BalancedXml

(***************************************************************************)
(* truncate_xml_to_lines.  A line of the input file is known by what the   *)
(* substring and regular-expression tests of the first pass see in it.     *)
(***************************************************************************)
\* class names and class-ids in the file
ClassNames == { <<"F", "o">>, <<"B">> }

\* the priority_prefixes arguments tried
PrefixLists == { << >>, << <<"F">> >> }

XmlDeclLine == [kind |-> "xmldecl", text |-> << >>]

RootLine == [kind |-> "root", text |-> << >>]

EndRootLine == [kind |-> "endroot", text |-> << >>]

OtherLine == [kind |-> "other", text |-> << >>]

\* <class>, <name>n</name>, </class>
ClassBlock(n) ==
    << [kind |-> "class", text |-> << >>], [kind |-> "name", text |-> n],
       [kind |-> "endclass", text |-> << >>] >>

\* <methods>, <class-id>c</class-id>, a <body>, </methods>
MethodsBlock(c) ==
    << [kind |-> "methods", text |-> << >>], [kind |-> "classid", text |-> c],
       OtherLine, [kind |-> "endmethods", text |-> << >>] >>

Blocks ==
    { ClassBlock(n) : n \in ClassNames } \cup { MethodsBlock(c) : c \in ClassNames }
        \cup { << OtherLine >> }

\* the input files: an optional XML declaration, the root tag, up to
\* MaxBlocks blocks, the closing root tag
Files ==
    { h \o Concat(bs) \o << EndRootLine >> :
        h \in { << RootLine >>, << XmlDeclLine, RootLine >> },
        bs \in SeqUpTo(Blocks, MaxBlocks) }

\* all_lines[i] of the code, i counted from 0
LineAt(i) == all_lines[i + 1]

NumLines == Len(all_lines)

\* re.search(r'<class[>\s]', line)
IsClassOpen(line) == line.kind = "class"

\* '</class>' in line
IsClassClose(line) == line.kind = "endclass"

\* '<name>' in line and the name regex matches
HasName(line) == line.kind = "name" /\ line.text # << >>

\* '<methods>' in line
IsMethodsOpen(line) == line.kind = "methods"

\* '</methods>' in line
IsMethodsClose(line) == line.kind = "endmethods"

\* '<class-id>' in line and the class-id regex matches
HasClassId(line) == line.kind = "classid" /\ line.text # << >>

\* re.search(r'<[a-zA-Z]', line) and '<?xml' not in line
IsElementLine(line) ==
    line.kind \in {"root", "class", "name", "methods", "classid", "other"}

RECURSIVE ClassScan(_, _, _)
\* the inner while loop of the class branch, from line i: where it stops,
\* the class name found and whether the closing tag was found
ClassScan(i, class_name_, class_depth) ==
    IF ~(i < NumLines /\ class_depth > 0)
    THEN [i |-> i, name |-> class_name_, closed |-> FALSE]
    ELSE LET nm == IF HasName(LineAt(i)) THEN Some(LineAt(i).text) ELSE class_name_
             d1 == IF IsClassOpen(LineAt(i)) THEN class_depth + 1 ELSE class_depth
             d2 == IF IsClassClose(LineAt(i)) THEN d1 - 1 ELSE d1
         IN  IF IsClassClose(LineAt(i)) /\ d2 = 0
             THEN [i |-> i, name |-> nm, closed |-> TRUE]
             ELSE ClassScan(i + 1, nm, d2)

RECURSIVE MethodsScan(_, _)
\* the inner while loop of the methods branch, from line i
MethodsScan(i, class_id) ==
    IF ~(i < NumLines)
    THEN [i |-> i, name |-> class_id, closed |-> FALSE]
    ELSE LET id == IF HasClassId(LineAt(i)) THEN Some(LineAt(i).text) ELSE class_id
         IN  IF IsMethodsClose(LineAt(i))
             THEN [i |-> i, name |-> id, closed |-> TRUE]
             ELSE MethodsScan(i + 1, id)

RECURSIVE FirstPassFrom(_, _, _)
\* the first pass from line i on: the class and methods ranges
FirstPassFrom(i, cr, mr) ==
    IF ~(i < NumLines) THEN [classes |-> cr, methods |-> mr]
    ELSE IF IsClassOpen(LineAt(i))
    THEN LET r == ClassScan(i + 1, None, 1)
         IN  FirstPassFrom(r.i + 1,
                 IF r.closed
                 THEN Append(cr, [start |-> i, end |-> r.i, name |-> r.name])
                 ELSE cr,
                 mr)
    ELSE IF IsMethodsOpen(LineAt(i))
    THEN LET r == MethodsScan(i + 1, None)
         IN  FirstPassFrom(r.i + 1, cr,
                 IF r.closed
                 THEN Append(mr, [start |-> i, end |-> r.i, name |-> r.name])
                 ELSE mr)
    ELSE FirstPassFrom(i + 1, cr, mr)

\* a variant that asks for the whole name, not a prefix of it
IsPriorityNameExact(class_name_) ==
    /\ ~IsNone(class_name_)
    /\ \E k \in 1..Len(priority_prefixes) : Get(class_name_) = priority_prefixes[k]

\* class_name and any(class_name.startswith(prefix) for prefix in priority_prefixes)
IsPriorityName(class_name_) ==
    /\ ~IsNone(class_name_)
    /\ Get(class_name_) # << >>
    /\ \E k \in 1..Len(priority_prefixes) :
            StartsWith(Get(class_name_), priority_prefixes[k])

\* class_id in priority_class_names
InNames(class_id, names) ==
    \E k \in 1..Len(names) : names[k] = class_id

\* a variant that leaves the ranges as categorised: classes, then methods
SortByStartOmitted(rs) == rs

RECURSIVE SortByStart(_)
\* priority_ranges.sort(key=lambda x: x[1])
SortByStart(rs) ==
    IF rs = << >> THEN << >>
    ELSE LET k == CHOOSE j \in 1..Len(rs) :
                    /\ \A h \in 1..Len(rs) : rs[j].start <= rs[h].start
                    /\ \A h \in 1..j - 1 : rs[h].start # rs[j].start
         IN  << rs[k] >> \o SortByStart(SubSeq(rs, 1, k - 1) \o SubSeq(rs, k + 1, Len(rs)))

\* the first line with an element tag that is not the XML declaration, 0 if none
HeaderEnd ==
    IF \E i \in 0..NumLines - 1 : IsElementLine(LineAt(i))
    THEN CHOOSE i \in 0..NumLines - 1 :
            /\ IsElementLine(LineAt(i))
            /\ \A h \in 0..i - 1 : ~IsElementLine(LineAt(h))
    ELSE 0

RECURSIVE AddRange(_, _, _, _)
\* the inner for loop of the priority loop: lines i..end_ that are not used
\* yet are appended until the output has max_lines lines
AddRange(i, end_, outp, used) ==
    IF i > end_ THEN [outp |-> outp, used |-> used]
    ELSE IF i \notin used
    THEN IF Len(outp) + 1 >= max_lines
         THEN [outp |-> Append(outp, i), used |-> used \cup {i}]
         ELSE AddRange(i + 1, end_, Append(outp, i), used \cup {i})
    ELSE AddRange(i + 1, end_, outp, used)

\* a variant without the return of the strict tier
AfterStrictFallThrough(outcome) == "recover"

\* what follows a parse tier, by its outcome
AfterStrict(outcome) == IF outcome = "ok" THEN "returned" ELSE "recover"

AfterRecover(outcome) == IF outcome = "ok" THEN "returned" ELSE "balance"

InitTrunc ==
    /\ trunc_variant \in {"plain", "prefix"}
    /\ all_lines \in Files
    /\ max_lines \in 0..MaxLinesArg
    /\ priority_prefixes \in (IF trunc_variant = "plain" THEN { << >> } ELSE PrefixLists)
    /\ class_ranges = << >>
    /\ methods_ranges = << >>
    /\ priority_class_names = << >>
    /\ priority_ranges = << >>
    /\ header_end = 0
    /\ output_lines = << >>
    /\ used_lines = {}
    /\ loop_i = 0
    /\ tiers = << >>
    /\ trunc_result = None
    /\ trunc_pc = "start"
    /\ ParseIdle
    /\ BalIdle
    /\ IndexIdle
    /\ QueryIdle

\* truncate_xml.py: the first max_lines lines of the file
ReadFirstLines ==
    /\ trunc_pc = "start"
    /\ trunc_variant = "plain"
    /\ output_lines' = [k \in 1..(IF max_lines < NumLines THEN max_lines ELSE NumLines)
                            |-> k - 1]
    /\ trunc_pc' = "strict"
    /\ UNCHANGED << trunc_variant, all_lines, max_lines, priority_prefixes,
                    class_ranges, methods_ranges, priority_class_names,
                    priority_ranges, header_end, used_lines, loop_i, tiers,
                    trunc_result >>
    /\ UNCHANGED notTrunc

\* truncate_xml_new.py: the first pass over all lines
FirstPass ==
    /\ trunc_pc = "start"
    /\ trunc_variant = "prefix"
    /\ LET r == FirstPassFrom(0, << >>, << >>)
       IN  /\ class_ranges' = r.classes
           /\ methods_ranges' = r.methods
    /\ trunc_pc' = "categorize"
    /\ UNCHANGED << trunc_variant, all_lines, max_lines, priority_prefixes,
                    priority_class_names, priority_ranges, header_end,
                    output_lines, used_lines, loop_i, tiers, trunc_result >>
    /\ UNCHANGED notTrunc

\* the priority classes, the methods ranges of their names, sorted by start;
\* then the header: every line up to the first element line
Categorize ==
    /\ trunc_pc = "categorize"
    /\ LET pc_ == SelectSeq(class_ranges, LAMBDA r : IsPriorityName(r.name))
           names == [k \in 1..Len(pc_) |-> pc_[k].name]
           pm == SelectSeq(methods_ranges, LAMBDA r : InNames(r.name, names))
       IN  /\ priority_class_names' = names
           /\ priority_ranges' =
                SortByStart([k \in 1..Len(pc_) |-> [type |-> "class"] @@ pc_[k]]
                            \o [k \in 1..Len(pm) |-> [type |-> "methods"] @@ pm[k]])
    /\ header_end' = HeaderEnd
    /\ output_lines' = [k \in 1..HeaderEnd + 1 |-> k - 1]
    /\ used_lines' = 0..HeaderEnd
    /\ loop_i' = 1
    /\ trunc_pc' = "priority"
    /\ UNCHANGED << trunc_variant, all_lines, max_lines, priority_prefixes,
                    class_ranges, methods_ranges, tiers, trunc_result >>
    /\ UNCHANGED notTrunc

\* one iteration of "for elem_type, start, end, name in priority_ranges"
AddPriorityRange ==
    /\ trunc_pc = "priority"
    /\ loop_i <= Len(priority_ranges)
    /\ Len(output_lines) < max_lines
    /\ LET r == AddRange(priority_ranges[loop_i].start, priority_ranges[loop_i].end,
                         output_lines, used_lines)
       IN  /\ output_lines' = r.outp
           /\ used_lines' = r.used
    /\ loop_i' = loop_i + 1
    /\ UNCHANGED << trunc_variant, all_lines, max_lines, priority_prefixes,
                    class_ranges, methods_ranges, priority_class_names,
                    priority_ranges, header_end, tiers, trunc_result, trunc_pc >>
    /\ UNCHANGED notTrunc

\* the priority loop ends: the ranges are exhausted or the break at max_lines
EndPriority ==
    /\ trunc_pc = "priority"
    /\ (loop_i > Len(priority_ranges) \/ Len(output_lines) >= max_lines)
    /\ loop_i' = header_end + 1
    /\ trunc_pc' = "other"
    /\ UNCHANGED << trunc_variant, all_lines, max_lines, priority_prefixes,
                    class_ranges, methods_ranges, priority_class_names,
                    priority_ranges, header_end, output_lines, used_lines,
                    tiers, trunc_result >>
    /\ UNCHANGED notTrunc

\* one iteration of "for i in range(header_end + 1, len(all_lines))"
AddOtherLine ==
    /\ trunc_pc = "other"
    /\ loop_i < NumLines
    /\ Len(output_lines) < max_lines
    /\ IF loop_i \notin used_lines
       THEN /\ output_lines' = Append(output_lines, loop_i)
            /\ used_lines' = used_lines \cup {loop_i}
       ELSE UNCHANGED << output_lines, used_lines >>
    /\ loop_i' = loop_i + 1
    /\ UNCHANGED << trunc_variant, all_lines, max_lines, priority_prefixes,
                    class_ranges, methods_ranges, priority_class_names,
                    priority_ranges, header_end, tiers, trunc_result, trunc_pc >>
    /\ UNCHANGED notTrunc

\* the other loop ends: the lines are exhausted or the break at max_lines
EndOther ==
    /\ trunc_pc = "other"
    /\ (loop_i >= NumLines \/ Len(output_lines) >= max_lines)
    /\ trunc_pc' = "strict"
    /\ UNCHANGED << trunc_variant, all_lines, max_lines, priority_prefixes,
                    class_ranges, methods_ranges, priority_class_names,
                    priority_ranges, header_end, output_lines, used_lines,
                    loop_i, tiers, trunc_result >>
    /\ UNCHANGED notTrunc

\* tier 1: etree.fromstring on the joined lines; lxml returns the tree or
\* raises XMLSyntaxError
StrictParse ==
    /\ trunc_pc = "strict"
    /\ \E outcome \in {"ok", "raised"} :
        /\ tiers' = Append(tiers, [tier |-> "strict", outcome |-> outcome])
        /\ trunc_pc' = AfterStrict(outcome)
        /\ trunc_result' = IF AfterStrict(outcome) = "returned" THEN Some("strict")
                           ELSE trunc_result
    /\ UNCHANGED << trunc_variant, all_lines, max_lines, priority_prefixes,
                    class_ranges, methods_ranges, priority_class_names,
                    priority_ranges, header_end, output_lines, used_lines, loop_i >>
    /\ UNCHANGED notTrunc

\* tier 2: the parser with recover=True; parsing or serialising may raise
RecoverParse ==
    /\ trunc_pc = "recover"
    /\ \E outcome \in {"ok", "raised"} :
        /\ tiers' = Append(tiers, [tier |-> "recover", outcome |-> outcome])
        /\ trunc_pc' = AfterRecover(outcome)
        /\ trunc_result' = IF AfterRecover(outcome) = "returned" THEN Some("recover")
                           ELSE trunc_result
    /\ UNCHANGED << trunc_variant, all_lines, max_lines, priority_prefixes,
                    class_ranges, methods_ranges, priority_class_names,
                    priority_ranges, header_end, output_lines, used_lines, loop_i >>
    /\ UNCHANGED notTrunc

\* tier 3: return balance_xml_tags(truncated_content)
BalanceFallback ==
    /\ trunc_pc = "balance"
    /\ tiers' = Append(tiers, [tier |-> "balance", outcome |-> "ok"])
    /\ trunc_result' = Some("balance")
    /\ trunc_pc' = "returned"
    /\ UNCHANGED << trunc_variant, all_lines, max_lines, priority_prefixes,
                    class_ranges, methods_ranges, priority_class_names,
                    priority_ranges, header_end, output_lines, used_lines, loop_i >>
    /\ UNCHANGED notTrunc

NextTrunc ==
    \/ ReadFirstLines
    \/ FirstPass
    \/ Categorize
    \/ AddPriorityRange
    \/ EndPriority
    \/ AddOtherLine
    \/ EndOther
    \/ StrictParse
    \/ RecoverParse
    \/ BalanceFallback

SpecTrunc == InitTrunc /\ [][NextTrunc]_vars

(***************************************************************************)
(* Properties of the truncators.                                           *)
(***************************************************************************)
\* the selection loops are over
SelectionDone == trunc_pc \in {"strict", "recover", "balance", "returned"}

\* the lines selected for output
Selected == { output_lines[k] : k \in 1..Len(output_lines) }

RangeLines(r) == r.start..r.end

\* the class ranges whose name starts with a priority prefix
C3_PriorityClasses ==
    { k \in 1..Len(class_ranges) :
        /\ ~IsNone(class_ranges[k].name)
        /\ \E j \in 1..Len(priority_prefixes) :
                StartsWith(Get(class_ranges[k].name), priority_prefixes[j]) }

\* the methods ranges whose class-id is the name of a priority class
C3_PriorityMethods ==
    { m \in 1..Len(methods_ranges) :
        \E k \in C3_PriorityClasses : methods_ranges[m].name = class_ranges[k].name }

\* the lines of every priority class and of every methods block of one
C3_PriorityLines ==
    UNION ({ RangeLines(class_ranges[k]) : k \in C3_PriorityClasses }
           \cup { RangeLines(methods_ranges[m]) : m \in C3_PriorityMethods })

\* C3 as claimed: every line of a priority class and of its methods block is
\* selected, whatever max_lines is.
C3_PriorityAlwaysKept ==
    (trunc_variant = "prefix" /\ SelectionDone) => C3_PriorityLines \subseteq Selected

\* C3 amended: every line of a priority class and of its methods block is
\* selected, wherever it lies in the file, when the header and the priority
\* lines together number at most max_lines.
C3_PriorityKeptWhenFits ==
    (/\ trunc_variant = "prefix"
     /\ SelectionDone
     /\ Cardinality((0..header_end) \cup C3_PriorityLines) <= max_lines)
        => C3_PriorityLines \subseteq Selected

\* a priority class and its methods block, lying beyond line max_lines of the
\* input, are selected whole
C3_Witness ==
    /\ trunc_variant = "prefix"
    /\ SelectionDone
    /\ C3_PriorityMethods # {}
    /\ Cardinality((0..header_end) \cup C3_PriorityLines) <= max_lines
    /\ \E l \in C3_PriorityLines : l >= max_lines
    /\ C3_PriorityLines \subseteq Selected

TierOrder == << "strict", "recover", "balance" >>

\* C6: the tiers run in the order strict, recover, balance; a tier runs only
\* after the one before it raised; when a tier succeeds its result is
\* returned and no later tier runs.
C6_TiersInOrder ==
    /\ Len(tiers) <= 3
    /\ \A k \in 1..Len(tiers) : tiers[k].tier = TierOrder[k]
    /\ \A k \in 1..Len(tiers) - 1 : tiers[k].outcome = "raised"
    /\ trunc_pc = "returned" =>
        /\ tiers # << >>
        /\ tiers[Len(tiers)].outcome = "ok"
        /\ trunc_result = Some(tiers[Len(tiers)].tier)
    /\ (tiers # << >> /\ tiers[Len(tiers)].outcome = "ok") => trunc_pc = "returned"

\* all three tiers ran, in both truncators' shared tail
C6_Witness ==
    /\ trunc_pc = "returned"
    /\ Len(tiers) = 3
    /\ trunc_result = Some("balance")

\* C9: the number of selected lines never exceeds max_lines.
C9_AtMostMaxLines ==
    trunc_variant = "prefix" => Len(output_lines) <= max_lines

\* what the code keeps to: max_lines or the header, whichever is longer
C9_AtMostMaxLinesOrHeader ==
    (trunc_variant = "prefix" /\ trunc_pc \notin {"start", "categorize"}) =>
        Len(output_lines) <= (IF max_lines > header_end + 1 THEN max_lines
                              ELSE header_end + 1)

\* C10: of every class range found in the first pass, all lines are selected
\* or none.
C10_ClassNotSplit ==
    (trunc_variant = "prefix" /\ SelectionDone) =>
        \A k \in 1..Len(class_ranges) :
            \/ RangeLines(class_ranges[k]) \subseteq Selected
            \/ RangeLines(class_ranges[k]) \cap Selected = {}

\* the priority ranges, taken from the first pass and the prefixes
C11_PriorityRanges ==
    { class_ranges[k] : k \in C3_PriorityClasses }
        \cup { methods_ranges[m] : m \in C3_PriorityMethods }

\* the start line of the priority range that line l lies in
C11_StartOf(l) ==
    CHOOSE s \in 0..NumLines - 1 :
        \E r \in C11_PriorityRanges : l \in RangeLines(r) /\ s = r.start

\* C11: the selected lines begin with the header; after it every selected
\* line of a priority range precedes every selected line of no priority
\* range, and the priority lines are ordered by the start of their range
\* (stated for each selected line and the next, which gives it for all).
C11_PriorityContentFirst ==
    (trunc_variant = "prefix" /\ trunc_pc \notin {"start", "categorize"}) =>
        /\ Len(output_lines) >= header_end + 1
        /\ \A k \in 1..header_end + 1 : output_lines[k] = k - 1
        /\ \A p \in header_end + 2..Len(output_lines) - 1 :
                /\ output_lines[p + 1] \in C3_PriorityLines
                        => output_lines[p] \in C3_PriorityLines
                /\ (/\ output_lines[p] \in C3_PriorityLines
                    /\ output_lines[p + 1] \in C3_PriorityLines)
                        => C11_StartOf(output_lines[p]) <= C11_StartOf(output_lines[p + 1])

\* a methods block of a priority class and, after it in the file, the class
\* itself are both selected, before a line of no priority that precedes them
\* in the file
C11_Witness ==
    /\ trunc_variant = "prefix"
    /\ SelectionDone
    /\ \E c \in C3_PriorityClasses, m \in C3_PriorityMethods :
            /\ methods_ranges[m].start < class_ranges[c].start
            /\ RangeLines(class_ranges[c]) \subseteq Selected
            /\ RangeLines(methods_ranges[m]) \subseteq Selected
    /\ \E p, q \in header_end + 2..Len(output_lines) :
            /\ p < q
            /\ output_lines[p] \in C3_PriorityLines
            /\ output_lines[q] \notin C3_PriorityLines
            /\ output_lines[q] < output_lines[p]

(***************************************************************************)
(* create_indexes.  The database is known by its index catalog; a          *)
(* statement either fails (session.run raises) or is executed.             *)
(***************************************************************************)
\* a variant of the statement without IF NOT EXISTS
CreateIndexAlways(cat, index_name) ==
    [cat EXCEPT ![index_name] = @ + 1]

\* CREATE INDEX index_name IF NOT EXISTS ..., executed: an entry is added
\* unless the index is in the catalog
CreateIndexIfNotExists(cat, index_name) ==
    IF cat[index_name] = 0 THEN [cat EXCEPT ![index_name] = 1] ELSE cat

\* a variant without the try/except around the statement
OnCreateFailureRaise == "raised"

\* except Exception: the failure is printed and the loop goes on
OnCreateFailure == "loop"

InitIndex ==
    /\ catalog \in { c \in [IndexNames -> {0, 1}] :
                        Cardinality({ n \in IndexNames : c[n] = 1 }) <= MaxPreexisting }
    /\ ix_run = 0
    /\ ix_i = 0
    /\ ix_log = << >>
    /\ ix_failures = 0
    /\ ix_verified = FALSE
    /\ first_catalog = None
    /\ first_clean = TRUE
    /\ ix_pc = "ready"
    /\ ParseIdle
    /\ BalIdle
    /\ TruncIdle
    /\ QueryIdle

\* the script is run (again): create_indexes() opens its first session
StartRun ==
    /\ ix_pc \in {"ready", "returned", "raised"}
    /\ ix_run < MaxRuns
    /\ ix_run' = ix_run + 1
    /\ ix_i' = 1
    /\ ix_log' = << >>
    /\ ix_verified' = FALSE
    /\ ix_pc' = "loop"
    /\ UNCHANGED << catalog, ix_failures, first_catalog, first_clean >>
    /\ UNCHANGED notIndex

\* session.run(index_query) returns: "Created <name>" is printed
CreateIndexRuns ==
    /\ ix_pc = "loop"
    /\ ix_i <= Len(Indexes)
    /\ catalog' = CreateIndexIfNotExists(catalog, Indexes[ix_i])
    /\ ix_log' = Append(ix_log, [name |-> Indexes[ix_i], printed |-> "Created"])
    /\ ix_i' = ix_i + 1
    /\ UNCHANGED << ix_run, ix_failures, ix_verified, first_catalog, first_clean, ix_pc >>
    /\ UNCHANGED notIndex

\* session.run(index_query) raises: "Failed to create <name>" is printed
CreateIndexFails ==
    /\ ix_pc = "loop"
    /\ ix_i <= Len(Indexes)
    /\ ix_failures < MaxFailures
    /\ ix_failures' = ix_failures + 1
    /\ ix_log' = Append(ix_log, [name |-> Indexes[ix_i], printed |-> "Failed"])
    /\ ix_i' = ix_i + 1
    /\ first_clean' = IF ix_run = 1 THEN FALSE ELSE first_clean
    /\ ix_pc' = OnCreateFailure
    /\ UNCHANGED << catalog, ix_run, ix_verified, first_catalog >>
    /\ UNCHANGED notIndex

\* the dict is exhausted: the first session is closed
LeaveLoop ==
    /\ ix_pc = "loop"
    /\ ix_i > Len(Indexes)
    /\ ix_pc' = "verify"
    /\ first_catalog' = IF ix_run = 1 THEN Some(catalog) ELSE first_catalog
    /\ UNCHANGED << catalog, ix_run, ix_i, ix_log, ix_failures, ix_verified, first_clean >>
    /\ UNCHANGED notIndex

\* SHOW INDEXES in a second session: the catalog is printed, or the
\* statement raises and the exception leaves create_indexes
ShowIndexes ==
    /\ ix_pc = "verify"
    /\ ix_verified' = TRUE
    /\ \E ok \in BOOLEAN : ix_pc' = IF ok THEN "returned" ELSE "raised"
    /\ UNCHANGED << catalog, ix_run, ix_i, ix_log, ix_failures, first_catalog, first_clean >>
    /\ UNCHANGED notIndex

NextIndex ==
    \/ StartRun
    \/ CreateIndexRuns
    \/ CreateIndexFails
    \/ LeaveLoop
    \/ ShowIndexes

SpecIndex == InitIndex /\ [][NextIndex]_vars

(***************************************************************************)
(* Properties of create_indexes.                                           *)
(***************************************************************************)
\* the names of the statements attempted in this run, in order
AttemptedNames == [k \in 1..Len(ix_log) |-> ix_log[k].name]

\* the creation loop of this run is over
LoopOver == ix_pc \in {"verify", "returned", "raised"}

\* each of the seven index names is in the catalog at most once
C4_NoDuplicates == \A n \in IndexNames : catalog[n] <= 1

\* nothing is raised out of the creation loop: an exception leaves
\* create_indexes only from SHOW INDEXES
C4_LoopNeverRaises == ix_pc = "raised" => ix_verified

\* C4 as claimed: no run raises out of the creation loop, no name is
\* duplicated, and every later run leaves the catalog as the first run left it.
C4_Idempotent ==
    /\ C4_NoDuplicates
    /\ C4_LoopNeverRaises
    /\ (ix_run >= 2 /\ LoopOver) => catalog = Get(first_catalog)

\* C4 amended: no run raises out of the creation loop, no name is duplicated,
\* no run removes an entry, and every later run leaves the catalog as the
\* first run left it when no statement of the first run failed.
C4_IdempotentAfterCleanRun ==
    /\ C4_NoDuplicates
    /\ C4_LoopNeverRaises
    /\ ~IsNone(first_catalog) => \A n \in IndexNames : Get(first_catalog)[n] <= catalog[n]
    /\ (ix_run >= 2 /\ LoopOver /\ first_clean) => catalog = Get(first_catalog)

\* a second run has ended after a first run without failures that created indexes
C4_Witness ==
    /\ ix_run = 2
    /\ ix_pc = "returned"
    /\ first_clean
    /\ \A k \in 1..Len(ix_log) : ix_log[k].printed = "Created"
    /\ \A n \in IndexNames : catalog[n] = 1
    /\ catalog = Get(first_catalog)

\* C7: whichever statements fail, all seven are attempted in their fixed
\* order, and SHOW INDEXES is issued after the loop in every case.
C7_AllAttemptedThenVerify ==
    /\ AttemptedNames = SubSeq(Indexes, 1, Len(ix_log))
    /\ LoopOver => AttemptedNames = Indexes
    /\ ix_pc \in {"returned", "raised"} => ix_verified
    /\ ix_verified => AttemptedNames = Indexes

\* a run with failed statements has gone through all seven and the verification
C7_Witness ==
    /\ ix_pc = "returned"
    /\ ix_verified
    /\ ix_log # << >>
    /\ ix_log[1].printed = "Failed"
    /\ \E k \in 2..Len(ix_log) : ix_log[k].printed = "Failed"
    /\ AttemptedNames = Indexes


(***************************************************************************)
(* The relationship timer.  A query either returns its summary or          *)
(* session.run(...).consume() raises.                                      *)
(***************************************************************************)
\* the keys of the queries dict, in insertion order
Queries ==
    << "DEFINED_IN_NAMESPACE", "DEFINED_IN_TYPE", "CALLS", "DEFINES_SYMBOL",
       "INCLUDES_FILE" >>

\* a variant with a try/except around the call, as create_indexes has
OnQueryFailureSkip == "loop"

\* no try/except: the exception leaves run_query_with_timing and the loop
OnQueryFailure == "raised"

InitQuery ==
    /\ qt_i = 1
    /\ qt_sessions = << >>
    /\ qt_printed = << >>
    /\ qt_driver = "open"
    /\ qt_pc = "loop"
    /\ ParseIdle
    /\ BalIdle
    /\ TruncIdle
    /\ IndexIdle

\* run_query_with_timing(q): "with driver.session() as session"
OpenSession ==
    /\ qt_pc = "loop"
    /\ qt_i <= Len(Queries)
    /\ qt_sessions' = Append(qt_sessions, [query |-> Queries[qt_i], state |-> "open"])
    /\ qt_pc' = "session"
    /\ UNCHANGED << qt_i, qt_printed, qt_driver >>
    /\ UNCHANGED notQuery

\* session.run(query).consume() returns the summary; the with block closes
\* the session; the three result lines are printed
QueryReturns ==
    /\ qt_pc = "session"
    /\ \E relationships_created \in 0..MaxRelationships :
            qt_printed' = Append(qt_printed,
                [key |-> Queries[qt_i], rel_created |-> relationships_created])
    /\ qt_sessions' = [qt_sessions EXCEPT ![Len(qt_sessions)].state = "closed"]
    /\ qt_i' = qt_i + 1
    /\ qt_pc' = "loop"
    /\ UNCHANGED qt_driver
    /\ UNCHANGED notQuery

\* session.run(query).consume() raises; the with block closes the session on
\* the way out
QueryRaises ==
    /\ qt_pc = "session"
    /\ qt_sessions' = [qt_sessions EXCEPT ![Len(qt_sessions)].state = "failed"]
    /\ qt_i' = qt_i + 1
    /\ qt_pc' = OnQueryFailure
    /\ UNCHANGED << qt_printed, qt_driver >>
    /\ UNCHANGED notQuery

\* the dict is exhausted: driver.close()
CloseDriver ==
    /\ qt_pc = "loop"
    /\ qt_i > Len(Queries)
    /\ qt_driver' = "closed"
    /\ qt_pc' = "exited"
    /\ UNCHANGED << qt_i, qt_sessions, qt_printed >>
    /\ UNCHANGED notQuery

NextQuery ==
    \/ OpenSession
    \/ QueryReturns
    \/ QueryRaises
    \/ CloseDriver

SpecQuery == InitQuery /\ [][NextQuery]_vars

(***************************************************************************)
(* Properties of the relationship timer.                                   *)
(***************************************************************************)
\* the sessions whose query raised
FailedSessions == { k \in 1..Len(qt_sessions) : qt_sessions[k].state = "failed" }

\* C12: the k-th session opened runs the k-th query of the fixed order and
\* no session is opened while another is open; a result line is printed for
\* exactly the queries that returned, in that order; when query k raises the
\* script is over: k is the last query executed, k - 1 result lines are
\* printed and none is added.
C12_FixedOrderNoRecovery ==
    /\ Len(qt_sessions) <= Len(Queries)
    /\ \A k \in 1..Len(qt_sessions) : qt_sessions[k].query = Queries[k]
    /\ \A k \in 1..Len(qt_sessions) - 1 : qt_sessions[k].state # "open"
    /\ Len(qt_printed) <= Len(qt_sessions)
    /\ \A k \in 1..Len(qt_printed) :
            /\ qt_printed[k].key = Queries[k]
            /\ qt_sessions[k].state = "closed"
    /\ \A k \in FailedSessions :
            /\ k = Len(qt_sessions)
            /\ Len(qt_printed) = k - 1
            /\ qt_pc = "raised"
            /\ qt_driver = "open"
    /\ qt_pc = "raised" => FailedSessions # {}
    /\ qt_pc = "exited" => Len(qt_printed) = Len(Queries)

\* the third query raised after two result lines
C12_Witness ==
    /\ qt_pc = "raised"
    /\ Len(qt_sessions) = 3
    /\ qt_sessions[3].state = "failed"
    /\ Len(qt_printed) = 2

=============================================================================
